---- MODULE Spec2Model ----
(***************************************************************************)
(* A model of pyhaml's compiler core (pyhaml/parser.py): the instruction   *)
(* emitter HamlObj.call with its peephole rules, the inline-Python splicer *)
(* HamlObj.convert_inline_python, the node classes' open/close methods and *)
(* the begin/end discipline over parser.to_close driven by the grammar     *)
(* actions p_obj and p_haml_doc.                                           *)
(*                                                                         *)
(* Strings are sequences of symbols.  A symbol is one character ("@", "{", *)
(* "}", "\\", "%", ...) or a fixed piece of text that holds none of these  *)
(* ("<", "div", "</", ...).  Objects live in `heap`; an object reference   *)
(* is its index in heap, 0 is None.                                        *)
(***************************************************************************)
EXTENDS Integers, Sequences, FiniteSets, TLC

VARIABLES
    src,        \* parser.src: the list of HamlCall instructions
    to_close,   \* parser.to_close: the stack of open nodes (references)
    depth,      \* parser.depth: the code-indentation counter
    last_obj,   \* parser.last_obj: reference of the node begun last
    preserve,   \* parser.preserve: the preserve-region counter
    heap,       \* the HamlObj objects created so far
    op,         \* parser.op: the configuration
    err,        \* the HamlParserException raised, NoErr while none
    log,        \* history: the begin/open/end calls made, in order
    phase,      \* "parse" until p_haml_doc has run or an exception ended it
    emitted,    \* the instruction handed to the last call() (SpecCall)
    sp          \* the frame of one convert_inline_python run (SpecSplice)

vars == <<src, to_close, depth, last_obj, preserve, heap, op, err, log,
          phase, emitted, sp>>

(***************************************************************************)
(* Bounds of the model.                                                    *)
(***************************************************************************)
MaxNodes == 2
MaxDepth == 2
MaxSrc == 2
MaxArgs == 2
MaxBlock == 1
MaxLen == 5
MaxTagNodes == 2
MaxTagDepth == 1
MaxEvalDepth == 1

(***************************************************************************)
(* Helpers on sequences.                                                   *)
(***************************************************************************)
Range(s) == {s[i] : i \in 1..Len(s)}

Last(s) == s[Len(s)]

Front(s) == SubSeq(s, 1, Len(s) - 1)

Min(a, b) == IF a < b THEN a ELSE b

\* F(v), with v evaluated once.
Bind(v, F(_)) == CHOOSE r \in {F(x) : x \in {v}} : TRUE

RECURSIVE Repeat(_, _)
Repeat(x, n) == IF n <= 0 THEN <<>> ELSE <<x>> \o Repeat(x, n - 1)

(***************************************************************************)
(* HamlCall.  func = "None" is a script line (RawStatement); then script   *)
(* holds the line: `tabs` leading tabs and the statement text.             *)
(***************************************************************************)
NoScript == [tabs |-> 0, code |-> <<>>]

HamlCall(d, h, func, args, script) ==
    [func |-> func, args |-> args, script |-> script, depth |-> d, haml |-> h]

\* HamlCall.__repr__: the number of leading tabs of the compiled line.
HamlCall_tabs(i) == IF i.func = "None" THEN i.script.tabs ELSE i.depth

NoCall == HamlCall(0, 0, "nothing", <<>>, NoScript)

(***************************************************************************)
(* HamlObj.call: append `next` to the list unless the last instruction has *)
(* the same depth and is an entab that next's detab cancels, or a write    *)
(* that next's write is merged into.                                       *)
(***************************************************************************)
call_nomerge(s, next) ==
    IF Len(s) > 0 /\ Last(s).depth = next.depth
       /\ next.func = "detab" /\ Last(s).func = "entab"
    THEN Front(s)
    ELSE Append(s, next)

call_nocancel(s, next) ==
    IF Len(s) > 0 /\ Last(s).depth = next.depth
       /\ next.func = "write" /\ next.func = Last(s).func
    THEN [s EXCEPT ![Len(s)].args = Last(s).args \o next.args]
    ELSE Append(s, next)

call_anydepth(s, next) ==
    IF Len(s) > 0
    THEN IF next.func = "detab" /\ Last(s).func = "entab"
         THEN Front(s)
         ELSE IF next.func = "write" /\ next.func = Last(s).func
              THEN [s EXCEPT ![Len(s)].args = Last(s).args \o next.args]
              ELSE Append(s, next)
    ELSE Append(s, next)

call(s, next) ==
    IF Len(s) > 0 /\ Last(s).depth = next.depth
    THEN IF next.func = "detab" /\ Last(s).func = "entab"
         THEN Front(s)
         ELSE IF next.func = "write" /\ next.func = Last(s).func
              THEN [s EXCEPT ![Len(s)].args = Last(s).args \o next.args]
              ELSE Append(s, next)
    ELSE Append(s, next)

(***************************************************************************)
(* Errors.  HamlObj.error raises a HamlParserException that carries the    *)
(* node's posinfo and the message; nothing catches it in the compiler.     *)
(***************************************************************************)
NoErr == [msg |-> "", line |-> 0]

HamlParserException(line, msg) == [msg |-> msg, line |-> line]

UNTERMINATED == "End of line reached when reading inline Python"

ILLEGAL_NESTING == "illegal nesting"

SELFCLOSE_CONTENT == "self-closing tags cannot have content"

NO_EVAL == "python evaluation is not allowed"

(***************************************************************************)
(* Arguments of an emitted call.  A written expression is                  *)
(*   const   : repr(text), a string constant;                              *)
(*   format  : repr(text) % (frags), text a format with %s placeholders;   *)
(*   unicode : unicode(text), text a Python expression;                    *)
(* wrapped in _haml.escape(..) when escape, and then in                    *)
(* _haml.preserve_whitespace(..) when pw.                                  *)
(***************************************************************************)
Arg(kind, text, frags) ==
    [kind |-> kind, text |-> text, frags |-> frags,
     escape |-> FALSE, pw |-> FALSE]

Const(text) == Arg("const", text, <<>>)

BoolArg(b) == Arg(IF b THEN "True" ELSE "False", <<>>, <<>>)

ReprArg(text) == Arg("repr", text, <<>>)

RawArg(text) == Arg("raw", text, <<>>)

(***************************************************************************)
(* The inline-Python splicer, HamlObj.convert_inline_python.               *)
(***************************************************************************)
\* s.find("@{") as a 1-based position, 0 when the marker does not occur.
RECURSIVE find_from(_, _)
find_from(s, i) ==
    IF i + 1 > Len(s) THEN 0
    ELSE IF s[i] = "@" /\ s[i + 1] = "{" THEN i
    ELSE find_from(s, i + 1)

find_marker(s) == find_from(s, 1)

\* for i in xrange(open_index - 1, 0, -1): the loop visits the 0-based
\* indexes open_index-1 down to 1, that is the 1-based positions i down to 2.
RECURSIVE count_backslashes(_, _)
count_backslashes(s, i) ==
    IF i >= 2 /\ s[i] = "\\" THEN 1 + count_backslashes(s, i - 1) ELSE 0

\* lit.replace("%", "%%")
RECURSIVE replace_pct(_)
replace_pct(lit) ==
    IF lit = <<>> THEN <<>>
    ELSE (IF lit[1] = "%" THEN <<"%", "%">> ELSE <<lit[1]>>)
         \o replace_pct(Tail(lit))

\* add_literal without the replace: the literal goes in as it is.
add_literal_raw(fmt, lit) == fmt \o lit

add_literal(fmt, lit) == fmt \o replace_pct(lit)

\* fmt.replace('%%', '%'): left to right, non-overlapping.
RECURSIVE unescape_pct(_)
unescape_pct(f) ==
    IF f = <<>> THEN <<>>
    ELSE IF Len(f) >= 2 /\ f[1] = "%" /\ f[2] = "%"
         THEN <<"%">> \o unescape_pct(SubSeq(f, 3, Len(f)))
         ELSE <<f[1]>> \o unescape_pct(Tail(f))

\* patch.toks: the Python tokens of s.  Every symbol is one token; col is
\* the column at which the token ends.
toks(s) == [i \in 1..Len(s) |-> [t |-> s[i], col |-> i]]

\* patch.untokenize: the text of a token list.
untokenize(tokens) == [i \in 1..Len(tokens) |-> tokens[i].t]

\* The loop without its level counter: the first '}' always ends it.
RECURSIVE read_flat(_, _, _, _)
read_flat(tk, i, level, tokens) ==
    IF i > Len(tk) THEN [closed |-> FALSE, col |-> 0, tokens |-> tokens]
    ELSE IF tk[i].t = "}"
         THEN [closed |-> TRUE, col |-> tk[i].col, tokens |-> tokens]
    ELSE read_flat(tk, i + 1, level, Append(tokens, tk[i]))

\* The for loop of read_script over the tokens tk, from token i on.
RECURSIVE read_tokens(_, _, _, _)
read_tokens(tk, i, level, tokens) ==
    IF i > Len(tk) THEN [closed |-> FALSE, col |-> 0, tokens |-> tokens]
    ELSE IF tk[i].t = "{"
         THEN read_tokens(tk, i + 1, level + 1, Append(tokens, tk[i]))
    ELSE IF tk[i].t = "}"
         THEN IF level = 0
              THEN [closed |-> TRUE, col |-> tk[i].col, tokens |-> tokens]
              ELSE read_tokens(tk, i + 1, level - 1, Append(tokens, tk[i]))
    ELSE read_tokens(tk, i + 1, level, Append(tokens, tk[i]))

\* read_script, on the frame f of convert_inline_python (f.s is the text
\* after the marker).
read_script(f) ==
    LET r == read_tokens(toks(f.s), 1, 0, <<>>)
    IN  IF ~r.closed
        THEN [f EXCEPT !.pc = "raised",
                       !.err = HamlParserException(f.line, UNTERMINATED)]
        ELSE [f EXCEPT !.fmt = f.fmt \o <<"%", "s">>,
                       !.args = Append(f.args,
                                  <<"(">> \o untokenize(r.tokens) \o <<")">>),
                       !.s = SubSeq(f.s, r.col + 1, Len(f.s))]

\* The frame at the call convert_inline_python(s) made by the node at `line`.
splice_frame(s, line) ==
    [text |-> s, line |-> line, s |-> s, fmt |-> <<>>, args |-> <<>>,
     pc |-> "scan", err |-> NoErr, s0 |-> s, last |-> "enter",
     result |-> Arg("", <<>>, <<>>)]

\* One pass of the while loop, for a marker at position p of f.s.
splice_marker(f, p) ==
    LET backslashes == count_backslashes(f.s, p - 1)
        f1 == add_literal(f.fmt, SubSeq(f.s, 1, p - 1 - backslashes))
        f2 == add_literal(f1, Repeat("\\", backslashes \div 2))
        g  == [f EXCEPT !.fmt = f2, !.s = SubSeq(f.s, p + 2, Len(f.s)),
                        !.s0 = f.s]
    IN  IF backslashes % 2 = 1
        THEN [g EXCEPT !.fmt = add_literal(f2, <<"@", "{">>),
                       !.last = "escaped"]
        ELSE read_script([g EXCEPT !.last = "script"])

\* The statements after the loop: the value convert_inline_python returns.
splice_result(f) ==
    [f EXCEPT !.pc = "done", !.last = "result", !.s0 = f.s,
              !.result = IF Len(f.args) = 0
                         THEN Const(unescape_pct(f.fmt))
                         ELSE Arg("format", f.fmt, f.args)]

splice_step(f0) ==
    Bind(f0, LAMBDA f :
    IF f.pc = "scan"
    THEN LET p == find_marker(f.s)
         IN  IF p = 0
             THEN [f EXCEPT !.fmt = add_literal(f.fmt, f.s), !.pc = "join",
                            !.s0 = f.s, !.last = "literal"]
             ELSE splice_marker(f, p)
    ELSE IF f.pc = "join" THEN splice_result(f)
    ELSE f)

RECURSIVE splice_run(_)
splice_run(f0) ==
    Bind(f0, LAMBDA f :
        IF f.pc \in {"done", "raised"} THEN f ELSE splice_run(splice_step(f)))

convert_inline_python(s, line) == splice_run(splice_frame(s, line))

(***************************************************************************)
(* The compiler context threaded through the methods: the parser's fields, *)
(* the heap, the pending exception and the call history.  A method does    *)
(* nothing once an exception is pending (it propagates to the caller of    *)
(* the parser).                                                            *)
(***************************************************************************)
Ctx == [src |-> src, to_close |-> to_close, depth |-> depth,
        last_obj |-> last_obj, preserve |-> preserve, heap |-> heap,
        err |-> err, log |-> log]

Raised(c) == c.err # NoErr

\* An entry of the history: the call, the node, and len(to_close) at the call.
Event(ev, h, len) == [ev |-> ev, id |-> h, len |-> len]

Log(c0, ev, h) ==
    Bind(c0, LAMBDA c :
        IF Raised(c) THEN c
        ELSE [c EXCEPT !.log = Append(c.log, Event(ev, h, Len(c.to_close)))])

\* HamlObj.error
error(c0, h, msg) ==
    Bind(c0, LAMBDA c :
        IF Raised(c) THEN c
        ELSE [c EXCEPT !.err = HamlParserException(c.heap[h].posinfo, msg)])

\* self.call(func=..., args=...) made by node h
Emit(c0, h, func, args) ==
    Bind(c0, LAMBDA c :
        IF Raised(c) THEN c
        ELSE [c EXCEPT !.src =
                call(c.src, HamlCall(c.depth, h, func, args, NoScript))])

\* HamlObj.write
write(c0, h, s, literal, escape, pw) ==
    Bind(c0, LAMBDA c :
        IF Raised(c) THEN c
        ELSE IF literal
        THEN Bind(convert_inline_python(s, c.heap[h].posinfo), LAMBDA f :
                IF f.pc = "raised" THEN [c EXCEPT !.err = f.err]
                ELSE Emit(c, h, "write",
                        <<[f.result EXCEPT !.escape = escape, !.pw = pw]>>))
        ELSE Emit(c, h, "write",
                <<[Arg("unicode",
                       IF "#" \in Range(s) THEN s \o <<"\n">> ELSE s, <<>>)
                   EXCEPT !.escape = escape, !.pw = pw]>>))

\* HamlObj.script
script(c0, h, s) ==
    Bind(c0, LAMBDA c :
        IF Raised(c) THEN c
        ELSE [c EXCEPT !.src = call(c.src,
                HamlCall(c.depth, h, "None", <<>>,
                         [tabs |-> c.depth, code |-> s]))])

\* attrs without its test
attrs_always(c, h, id, klass, hash) ==
    Emit(c, h, "attrs", <<ReprArg(id), ReprArg(klass), RawArg(<<hash>>)>>)

\* HamlObj.attrs
attrs(c, h, id, klass, hash) ==
    IF hash # "{}" \/ klass # <<>> \/ id # <<>>
    THEN Emit(c, h, "attrs", <<ReprArg(id), ReprArg(klass), RawArg(<<hash>>)>>)
    ELSE c

\* HamlObj.enblock, HamlObj.deblock
enblock(c0) ==
    Bind(c0, LAMBDA c :
        IF Raised(c) THEN c ELSE [c EXCEPT !.depth = c.depth + 1])

\* deblock without the decrement
deblock_none(c0) == c0

deblock(c0) ==
    Bind(c0, LAMBDA c :
        IF Raised(c) THEN c ELSE [c EXCEPT !.depth = c.depth - 1])

\* HamlObj.indent, HamlObj.trim
indent(c0, h) ==
    Bind(c0, LAMBDA c : Emit(c, h, "indent", <<BoolArg(c.preserve = 0)>>))

trim(c, h) == Emit(c, h, "trim", <<>>)

\* HamlObj.push
push(c, h, s, literal, escape, pw) ==
    write(indent(c, h), h, s, literal, escape, pw)

\* entab without SilentScript's override
entab_all(c0, h) == Emit(c0, h, "entab", <<>>)

\* HamlObj.entab, HamlObj.detab, and SilentScript's overrides (pass)
entab(c0, h) ==
    Bind(c0, LAMBDA c :
        IF c.heap[h].kind = "SilentScript" THEN c ELSE Emit(c, h, "entab", <<>>))

detab(c0, h) ==
    Bind(c0, LAMBDA c :
        IF c.heap[h].kind = "SilentScript" THEN c ELSE Emit(c, h, "detab", <<>>))

\* HamlObj.no_nesting
no_nesting_off(c0, h) == c0

\* no_nesting without its test
no_nesting_always(c0, h) == error(c0, h, ILLEGAL_NESTING)

no_nesting(c0, h) ==
    Bind(c0, LAMBDA c :
        IF c.last_obj # h THEN error(c, h, ILLEGAL_NESTING) ELSE c)

(***************************************************************************)
(* The node classes.  HamlObj(..) is HamlObj.__init__; the class           *)
(* constructors set their own fields over it.  bdepth is history: the      *)
(* depth the node was begun with (its declared depth).                     *)
(***************************************************************************)
HamlObj(kind, posinfo, haml_indent) ==
    [kind |-> kind, posinfo |-> posinfo, haml_indent |-> haml_indent,
     value |-> <<>>, vkind |-> "None", escape |-> FALSE,
     preserve_whitespace |-> FALSE, type |-> "", xml |-> FALSE,
     condition |-> <<>>, lines |-> <<>>, hash |-> "", id |-> <<>>,
     klass |-> <<>>, tagname |-> "div", inner |-> FALSE, outer |-> FALSE,
     selfclose |-> FALSE, bdepth |-> -1]

Content(posinfo, value) ==
    [HamlObj("Content", posinfo, -1) EXCEPT !.value = value, !.vkind = "str"]

Script(posinfo, type, value) ==
    [HamlObj("Script", posinfo, -1) EXCEPT
        !.type = type, !.value = value, !.vkind = "str",
        !.escape = (type = "&=") \/ (type = "=" /\ op.escape_html),
        !.preserve_whitespace =
            ~((type = "&=") \/ (type = "=" /\ op.escape_html)) /\ type = "~"]

SilentScript(posinfo, value) ==
    [HamlObj("SilentScript", posinfo, -1) EXCEPT !.value = value, !.vkind = "str"]

Doctype(posinfo) == HamlObj("Doctype", posinfo, -1)

Comment(posinfo, condition) ==
    [HamlObj("Comment", posinfo, -1) EXCEPT !.condition = condition]

Filter(kind, posinfo, haml_indent) == HamlObj(kind, posinfo, haml_indent)

CData(posinfo) == HamlObj("CData", posinfo, -1)

Tag(posinfo) == HamlObj("Tag", posinfo, -1)

\* Tag.addclass: (self.klass + ' ' + s).strip() for a class token s
addclass(n, s) ==
    [n EXCEPT !.klass = IF n.klass = <<>> THEN s ELSE n.klass \o <<" ">> \o s]

\* Tag.auto, Tag.preserve
auto(n) ==
    n.vkind = "None" /\ (n.selfclose \/ n.tagname \in op.autoclose)

Tag_preserve(n) == n.tagname \in op.preserve

\* Tag.push without the swap of inner and outer at a close
Tag_push_noswap(c0, h, s, closing) ==
    Bind(c0, LAMBDA c :
        LET n == c.heap[h]
            inner == n.inner \/ n.tagname \in op.preserve
            outer == n.outer
            c1 == IF outer \/ (closing /\ h = c.last_obj) THEN trim(c, h) ELSE c
        IN  Bind(write(indent(c1, h), h, s, TRUE, FALSE, FALSE), LAMBDA c2 :
                IF ~Raised(c2) /\ (inner \/ c2.preserve # 0)
                THEN trim(c2, h) ELSE c2))

\* Tag.push
Tag_push(c0, h, s, closing) ==
    Bind(c0, LAMBDA c :
        LET n == c.heap[h]
            inner == IF closing THEN n.outer ELSE (n.inner \/ Tag_preserve(n))
            outer == IF closing THEN (n.inner \/ Tag_preserve(n)) ELSE n.outer
            c1 == IF outer \/ (closing /\ h = c.last_obj) THEN trim(c, h) ELSE c
        IN  Bind(write(indent(c1, h), h, s, TRUE, FALSE, FALSE), LAMBDA c2 :
                IF ~Raised(c2) /\ (inner \/ c2.preserve # 0)
                THEN trim(c2, h) ELSE c2))

\* Tag.open: the text that ends the opening tag
Tag_terminator_gt(n) == <<">">>

Tag_terminator(n) ==
    IF auto(n) /\ op.format = "xhtml" THEN <<"/>">> ELSE <<">">>

\* Tag.open: the write of the tag's value
Tag_value(c0, h) ==
    Bind(c0, LAMBDA c :
        LET n == c.heap[h]
        IN  IF n.vkind = "None" THEN c
            ELSE IF n.selfclose THEN error(c, h, SELFCLOSE_CONTENT)
            ELSE IF n.vkind = "Script"
                 THEN write(c, h, n.value, FALSE, n.escape, FALSE)
                 ELSE write(c, h, n.value, TRUE, FALSE, FALSE))

\* Tag.open
Tag_open(c0, h) ==
    Bind(c0, LAMBDA c :
        LET n == c.heap[h]
        IN  Bind(Tag_value(
                   write(attrs(Tag_push(c, h, <<"<", n.tagname>>, FALSE),
                               h, n.id, n.klass, n.hash),
                         h, Tag_terminator(n), TRUE, FALSE, FALSE), h),
                 LAMBDA c4 :
                   IF Raised(c4) \/ ~Tag_preserve(n) THEN c4
                   ELSE [c4 EXCEPT !.preserve = c4.preserve + 1]))

\* Tag.close: the text of the closing tag
Tag_closing_always(n) == <<"</", n.tagname, ">">>

Tag_closing(n) ==
    IF (~auto(n) /\ n.vkind = "None") \/ ~auto(n)
    THEN <<"</", n.tagname, ">">> ELSE <<>>

\* Tag.close
Tag_close(c0, h) ==
    Bind(c0, LAMBDA c :
        LET n == c.heap[h]
        IN  Bind(IF n.vkind # "None" \/ n.selfclose THEN no_nesting(c, h) ELSE c,
                 LAMBDA c1 :
                   Tag_push(IF Raised(c1) \/ ~Tag_preserve(n) THEN c1
                            ELSE [c1 EXCEPT !.preserve = c1.preserve - 1],
                            h, Tag_closing(n), TRUE)))

\* Filter.open, EscapedFilter.open: push every line
RECURSIVE push_lines(_, _, _, _)
push_lines(c, h, lines, escape) ==
    IF lines = <<>> THEN c
    ELSE push_lines(push(c, h, lines[1], TRUE, escape, FALSE), h,
                    Tail(lines), escape)

\* markdown.markdown(code).split('\n') of the external Markdown library: one
\* paragraph per source line.
markdown(lines) == [i \in 1..Len(lines) |-> <<"<p>">> \o lines[i] \o <<"</p>">>]

\* Content.open, Script.open, SilentScript.open
Content_open(c0, h) ==
    Bind(c0, LAMBDA c : push(c, h, c.heap[h].value, TRUE, FALSE, FALSE))

Script_open(c0, h) ==
    Bind(c0, LAMBDA c :
        push(c, h, c.heap[h].value, FALSE, c.heap[h].escape,
             c.heap[h].preserve_whitespace))

SilentScript_open(c0, h) ==
    Bind(c0, LAMBDA c : enblock(script(c, h, c.heap[h].value)))

\* The doctypes table, each declaration as one symbol; the last two
\* assignments give xhtml and html4 the key ''.
xhtml_doctypes ==
    [strict |->
       "<!DOCTYPE html PUBLIC \"-//W3C//DTD XHTML 1.0 Strict//EN\" \"http://www.w3.org/TR/xhtml1/DTD/xhtml1-strict.dtd\">",
     transitional |->
       "<!DOCTYPE html PUBLIC \"-//W3C//DTD XHTML 1.0 Transitional//EN\" \"http://www.w3.org/TR/xhtml1/DTD/xhtml1-transitional.dtd\">",
     basic |->
       "<!DOCTYPE html PUBLIC \"-//W3C//DTD XHTML Basic 1.1//EN\" \"http://www.w3.org/TR/xhtml-basic/xhtml-basic11.dtd\">",
     mobile |->
       "<!DOCTYPE html PUBLIC \"-//WAPFORUM//DTD XHTML Mobile 1.2//EN\" \"http://www.openmobilealliance.org/tech/DTD/xhtml-mobile12.dtd\">",
     frameset |->
       "<!DOCTYPE html PUBLIC \"-//W3C//DTD XHTML 1.0 Frameset//EN\" \"http://www.w3.org/TR/xhtml1/DTD/xhtml1-frameset.dtd\">"]

html4_doctypes ==
    [strict |->
       "<!DOCTYPE html PUBLIC \"-//W3C//DTD HTML 4.01//EN\" \"http://www.w3.org/TR/html4/strict.dtd\">",
     frameset |->
       "<!DOCTYPE html PUBLIC \"-//W3C//DTD HTML 4.01 Frameset//EN\" \"http://www.w3.org/TR/html4/frameset.dtd\">",
     transitional |->
       "<!DOCTYPE html PUBLIC \"-//W3C//DTD HTML 4.01 Transitional//EN\" \"http://www.w3.org/TR/html4/loose.dtd\">"]

html5_doctypes == ("" :> "<!DOCTYPE html>")

\* The table without the two assignments after it.
doctypes_literal ==
    [xhtml |-> xhtml_doctypes, html4 |-> html4_doctypes,
     html5 |-> html5_doctypes]

doctypes ==
    [xhtml |-> xhtml_doctypes @@ ("" :> xhtml_doctypes.transitional),
     html4 |-> html4_doctypes @@ ("" :> html4_doctypes.transitional),
     html5 |-> html5_doctypes]

\* The KeyError of a failed dict lookup: not a HamlParserException, and
\* without a line.
KeyError == [msg |-> "KeyError", line |-> 0]

\* Doctype.open
Doctype_open(c0, h) ==
    Bind(c0, LAMBDA c :
        LET n == c.heap[h]
        IN  IF Raised(c) THEN c
            ELSE IF n.xml
            THEN push(c, h,
                      <<"<?xml version=\"1.0\" encoding=\"", n.type, "\"?>">>,
                      TRUE, FALSE, FALSE)
            ELSE IF n.type \notin DOMAIN doctypes[op.format]
            THEN [c EXCEPT !.err = KeyError]
            ELSE push(c, h, <<doctypes[op.format][n.type]>>, TRUE, FALSE, FALSE))

\* Comment.open
Comment_open(c0, h) ==
    Bind(c0, LAMBDA c :
        LET n == c.heap[h]
            s == IF n.condition # <<>>
                 THEN <<"<!--[">> \o n.condition \o <<"]>">> ELSE <<"<!--">>
        IN  push(c, h, IF n.value # <<>> THEN s \o <<" ">> \o n.value ELSE s,
                 TRUE, FALSE, FALSE))

\* CData.open
CData_open(c, h) == push(c, h, <<"//<![CDATA[">>, TRUE, FALSE, FALSE)

\* Comment.close
Comment_close(c0, h) ==
    Bind(c0, LAMBDA c :
        LET n == c.heap[h]
            s == IF n.condition # <<>> THEN <<"<![endif]-->">> ELSE <<"-->">>
        IN  IF n.value # <<>>
            THEN write(c, h, <<" ">> \o s, TRUE, FALSE, FALSE)
            ELSE push(c, h, s, TRUE, FALSE, FALSE))

\* CData.close
CData_close(c, h) == push(c, h, <<"//]]>">>, TRUE, FALSE, FALSE)

\* self.close() by the class of h: Content.close, Doctype.close,
\* SilentScript.close, Comment.close, CData.close, Tag.close, HamlObj.close
close(c0, h) ==
    Bind(c0, LAMBDA c :
        LET k == c.heap[h].kind
        IN  IF k \in {"Content", "Doctype"} THEN no_nesting(c, h)
            ELSE IF k = "SilentScript" THEN deblock(c)
            ELSE IF k = "Comment" THEN Comment_close(c, h)
            ELSE IF k = "CData" THEN CData_close(c, h)
            ELSE IF k = "Tag" THEN Tag_close(c, h)
            ELSE c)

\* HamlObj.end
end(c, h) == Log(close(detab(Log(c, "end", h), h), h), "closed", h)

\* while len(to_close) > depth: to_close.pop().end()
close_above_one(c0, d) ==
    Bind(c0, LAMBDA c :
        IF Raised(c) \/ Len(c.to_close) <= d THEN c
        ELSE end([c EXCEPT !.to_close = Front(c.to_close)], Last(c.to_close)))

RECURSIVE close_above_strict(_, _)
close_above_strict(c0, d) ==
    Bind(c0, LAMBDA c :
        IF Raised(c) \/ Len(c.to_close) <= d + 1 THEN c
        ELSE close_above_strict(
                end([c EXCEPT !.to_close = Front(c.to_close)],
                    Last(c.to_close)), d))

\* The loop taking the bottom node, to_close.pop(0), instead of the top.
RECURSIVE close_above_fifo(_, _)
close_above_fifo(c0, d) ==
    Bind(c0, LAMBDA c :
        IF Raised(c) \/ Len(c.to_close) <= d THEN c
        ELSE close_above_fifo(
                end([c EXCEPT !.to_close = Tail(c.to_close)],
                    Head(c.to_close)), d))

RECURSIVE close_above(_, _)
close_above(c0, d) ==
    Bind(c0, LAMBDA c :
        IF Raised(c) \/ Len(c.to_close) <= d THEN c
        ELSE close_above(
                end([c EXCEPT !.to_close = Front(c.to_close)],
                    Last(c.to_close)), d))

\* A new object on the heap; its reference is Len(heap) afterwards.
New(c0, n) ==
    Bind(c0, LAMBDA c :
        IF Raised(c) THEN c ELSE [c EXCEPT !.heap = Append(c.heap, n)])

RECURSIVE begin(_, _, _)

\* The object just made, begun at depth d.
begin_new(c0, d) == Bind(c0, LAMBDA c : begin(c, Len(c.heap), d))

\* JavascriptFilter.open
JavascriptFilter_open(c0, h) ==
    Bind(c0, LAMBDA c :
        LET n == c.heap[h]
            d == Len(c.to_close)
        IN  Bind(begin_new(New(c, [Tag(n.posinfo) EXCEPT
                                     !.tagname = "script",
                                     !.hash = "{'type': 'text/javascript'}"]),
                           d + 1),
                 LAMBDA c2 :
                   push_lines(IF op.format = "xhtml"
                              THEN begin_new(New(c2, CData(n.posinfo)), d + 2)
                              ELSE c2,
                              h, n.lines, FALSE)))

\* self.open() by the class of h
open(c0, h) ==
    Bind(c0, LAMBDA c :
        LET k == c.heap[h].kind
        IN  IF Raised(c) THEN c
            ELSE IF k = "Tag" THEN Tag_open(c, h)
            ELSE IF k = "Content" THEN Content_open(c, h)
            ELSE IF k = "Script" THEN Script_open(c, h)
            ELSE IF k = "SilentScript" THEN SilentScript_open(c, h)
            ELSE IF k = "Doctype" THEN Doctype_open(c, h)
            ELSE IF k = "Comment" THEN Comment_open(c, h)
            ELSE IF k = "CData" THEN CData_open(c, h)
            ELSE IF k = "Filter" THEN push_lines(c, h, c.heap[h].lines, FALSE)
            ELSE IF k = "EscapedFilter"
                 THEN push_lines(c, h, c.heap[h].lines, TRUE)
            ELSE IF k = "MarkdownFilter"
                 THEN push_lines(c, h, markdown(c.heap[h].lines), FALSE)
            ELSE IF k = "JavascriptFilter" THEN JavascriptFilter_open(c, h)
            ELSE c)

\* self.parser.last_obj = self
set_last_obj(c0, h) ==
    Bind(c0, LAMBDA c : IF Raised(c) THEN c ELSE [c EXCEPT !.last_obj = h])

\* to_close.insert(0, self) in place of the append
prepend_to_close(c0, h) ==
    Bind(c0, LAMBDA c :
        IF Raised(c) THEN c ELSE [c EXCEPT !.to_close = <<h>> \o c.to_close])

\* self.parser.to_close.append(self)
append_to_close(c0, h) ==
    Bind(c0, LAMBDA c :
        IF Raised(c) THEN c ELSE [c EXCEPT !.to_close = Append(c.to_close, h)])

\* HamlObj.begin
begin_early(c0, h, d) ==
    Bind(c0, LAMBDA c :
        append_to_close(
          entab(open(Log(
            close_above(
              set_last_obj(Log([c EXCEPT !.heap[h].bdepth = d], "begin", h), h),
              d), "open", h), h), h), h))

begin(c0, h, d) ==
    Bind(c0, LAMBDA c :
        append_to_close(
          entab(open(Log(
            set_last_obj(
              close_above(Log([c EXCEPT !.heap[h].bdepth = d], "begin", h), d),
              h), "open", h), h), h), h))

(***************************************************************************)
(* The grammar actions.  A source line arrives as the token values of its  *)
(* production; `reduce` is what p_element, p_tag_*, p_dict, p_text,        *)
(* p_script, p_silentscript, p_content, p_doctype, p_htmltype, p_xmltype,  *)
(* p_comment, p_condcomment and p_filter build from them.                  *)
(***************************************************************************)
Line(prod) ==
    [prod |-> prod, tagname |-> "div", id |-> <<>>, classes |-> <<>>,
     dict |-> "", trim |-> {}, selfclose |-> FALSE, text |-> "none",
     type |-> "", s |-> <<>>, condition |-> <<>>, lines |-> <<>>]

\* p_dict
p_dict(dict) == IF dict = "" \/ op.suppress_eval THEN "{}" ELSE dict

\* p_script without the suppress_eval test
p_script_keep(posinfo, type, code) == Script(posinfo, type, code)

\* p_script
p_script(posinfo, type, code) ==
    Script(posinfo, type, IF op.suppress_eval THEN <<"\"\"">> ELSE code)

\* p_tag_tagname, p_tag_id, p_tag_class, p_tag_tagname_id, p_tag_tag_class
RECURSIVE p_tag_class(_, _)
p_tag_class(n, classes) ==
    IF classes = <<>> THEN n
    ELSE p_tag_class(addclass(n, <<classes[1]>>), Tail(classes))

p_tag(posinfo, ln) ==
    p_tag_class([Tag(posinfo) EXCEPT !.tagname = ln.tagname, !.id = ln.id],
                ln.classes)

\* p_element (with p_trim, p_selfclose and p_text)
p_element(posinfo, ln) ==
    LET v == p_script(posinfo, ln.type, ln.s)
    IN  [p_tag(posinfo, ln) EXCEPT
            !.hash = p_dict(ln.dict),
            !.inner = "<" \in ln.trim,
            !.outer = ">" \in ln.trim,
            !.selfclose = ln.selfclose,
            !.vkind = IF ln.text = "script" THEN "Script"
                      ELSE IF ln.text = "value" THEN "str" ELSE "None",
            !.value = IF ln.text = "script" THEN v.value
                      ELSE IF ln.text = "value" THEN ln.s ELSE <<>>,
            !.escape = ln.text = "script" /\ v.escape]

\* p_doctype, p_htmltype, p_xmltype
p_doctype(posinfo, ln) ==
    [Doctype(posinfo) EXCEPT
        !.xml = ln.text = "xml",
        !.type = IF ln.text = "xml" /\ ln.type = "" THEN "utf-8" ELSE ln.type]

\* p_filter
filter_types ==
    [plain |-> "Filter", javascript |-> "JavascriptFilter",
     escaped |-> "EscapedFilter", markdown |-> "MarkdownFilter"]

p_filter(posinfo, ln, haml_indent) ==
    [Filter(filter_types[ln.type], posinfo, haml_indent) EXCEPT !.lines = ln.lines]

reduce(ln, posinfo, d) ==
    IF ln.prod = "element" THEN p_element(posinfo, ln)
    ELSE IF ln.prod = "content" THEN Content(posinfo, ln.s)
    ELSE IF ln.prod = "script" THEN p_script(posinfo, ln.type, ln.s)
    ELSE IF ln.prod = "silentscript" THEN SilentScript(posinfo, ln.s)
    ELSE IF ln.prod = "doctype" THEN p_doctype(posinfo, ln)
    ELSE IF ln.prod = "comment"
         THEN [Comment(posinfo, ln.condition) EXCEPT !.value = ln.s]
    ELSE p_filter(posinfo, ln, d)

\* The line number of the next source line.
lineno == IF heap = <<>> THEN 1 ELSE Last(heap).posinfo + 1

Install(c, ph) ==
    /\ src' = c.src
    /\ to_close' = c.to_close
    /\ depth' = c.depth
    /\ last_obj' = c.last_obj
    /\ preserve' = c.preserve
    /\ heap' = c.heap
    /\ err' = c.err
    /\ log' = c.log
    /\ phase' = IF Raised(c) THEN "aborted" ELSE ph

\* One source line: its production's action, then p_obj, which begins the
\* node at depth d (the filter token's haml_indent, else lexer.depth).
p_obj(ln, d) ==
    /\ phase = "parse"
    /\ lineno <= MaxNodes
    /\ IF ln.prod = "silentscript" /\ op.suppress_eval
       THEN \E c \in {[Ctx EXCEPT !.err = HamlParserException(lineno, NO_EVAL)]} :
                Install(c, "parse")
       ELSE \E c \in {begin_new(New(Ctx, reduce(ln, lineno, d)), d)} :
                Install(c, "parse")
    /\ UNCHANGED <<op, emitted, sp>>

\* p_haml_doc: the end of the input
p_haml_doc_one ==
    /\ phase = "parse"
    /\ \E c \in {close_above_one(Ctx, 0)} : Install(c, "done")
    /\ UNCHANGED <<op, emitted, sp>>

p_haml_doc ==
    /\ phase = "parse"
    /\ \E c \in {close_above(Ctx, 0)} : Install(c, "done")
    /\ UNCHANGED <<op, emitted, sp>>

(***************************************************************************)
(* Configurations and source lines of the specifications.                  *)
(***************************************************************************)
Options(format, suppress_eval, escape_html) ==
    [format |-> format, suppress_eval |-> suppress_eval,
     escape_html |-> escape_html, autoclose |-> {"br"}, preserve |-> {"pre"}]

Element(tagname) == [Line("element") EXCEPT !.tagname = tagname]

Valued(ln, s) == [ln EXCEPT !.text = "value", !.s = s]

Lines ==
    { Element("div"),
      Valued(Element("div"), <<"a">>),
      [Element("div") EXCEPT !.selfclose = TRUE],
      [Line("content") EXCEPT !.s = <<"a">>],
      Line("doctype"),
      [Line("silentscript") EXCEPT !.s = <<"if x:">>],
      [Line("comment") EXCEPT !.s = <<"c">>],
      [Line("filter") EXCEPT !.type = "javascript", !.lines = << <<"j">> >>] }

InitParser ==
    /\ src = <<>>
    /\ to_close = <<>>
    /\ depth = 0
    /\ last_obj = 0
    /\ preserve = 0
    /\ heap = <<>>
    /\ err = NoErr
    /\ log = <<>>
    /\ phase = "parse"

Init ==
    /\ InitParser
    /\ op \in {Options(f, FALSE, FALSE) : f \in {"xhtml", "html5"}}
    /\ emitted = NoCall
    /\ sp = splice_frame(<<>>, 0)

Next ==
    \/ \E ln \in Lines, d \in 0..MaxDepth : p_obj(ln, d)
    \/ p_haml_doc

Spec == Init /\ [][Next]_vars

(***************************************************************************)
(* SpecTag: element lines only, under every format.                        *)
(***************************************************************************)
TagLines ==
    { [Element(name) EXCEPT !.selfclose = sc] :
        name \in {"div", "br"}, sc \in BOOLEAN }
    \cup { Valued([Element(name) EXCEPT !.selfclose = sc], <<"a">>) :
        name \in {"div", "br"}, sc \in BOOLEAN }
    \cup { [Element(name) EXCEPT !.text = "script", !.type = "=", !.s = <<"x">>] :
        name \in {"div", "br"} }
    \cup { [Element("br") EXCEPT !.dict = "{'a': 1}"] }

InitTag ==
    /\ InitParser
    /\ op \in {Options(f, FALSE, FALSE) : f \in {"xhtml", "html4", "html5"}}
    /\ emitted = NoCall
    /\ sp = splice_frame(<<>>, 0)

NextTag ==
    \/ \E ln \in TagLines, d \in 0..MaxTagDepth :
          lineno <= MaxTagNodes /\ p_obj(ln, d)
    \/ p_haml_doc

SpecTag == InitTag /\ [][NextTag]_vars

(***************************************************************************)
(* SpecEval: the lines that carry host-language text (scripts, silent      *)
(* scripts, attribute dicts, inline expressions), with suppress_eval and   *)
(* escape_html either way.                                                 *)
(***************************************************************************)
Exprs == {"x", "y"}

EvalLines ==
    { [Line("script") EXCEPT !.type = ty, !.s = <<e>>] :
        ty \in {"=", "&=", "~"}, e \in Exprs }
    \cup { [Line("silentscript") EXCEPT !.s = <<e>>] : e \in Exprs }
    \cup { [Element("div") EXCEPT !.dict = e] : e \in Exprs \cup {""} }
    \cup { [Element("div") EXCEPT !.text = "script", !.type = "=", !.s = <<e>>] :
            e \in Exprs }
    \cup { [Line("content") EXCEPT !.s = <<"a", "@", "{", e, "}">>] :
            e \in Exprs }

InitEval ==
    /\ InitParser
    /\ op \in {Options("xhtml", se, eh) : se, eh \in BOOLEAN}
    /\ emitted = NoCall
    /\ sp = splice_frame(<<>>, 0)

NextEval ==
    \/ \E ln \in EvalLines, d \in 0..MaxEvalDepth : p_obj(ln, d)
    \/ p_haml_doc

SpecEval == InitEval /\ [][NextEval]_vars

(***************************************************************************)
(* SpecAttrs: tags with and without an id, class tokens and a dict.        *)
(***************************************************************************)
AttrLines ==
    { [Element("div") EXCEPT !.id = id, !.classes = cl, !.dict = dict] :
        id \in {<<>>, <<"i">>},
        cl \in {<<>>, <<"c">>, <<"c", "d">>},
        dict \in {"", "{}", "{'a': 1}"} }

InitAttrs ==
    /\ InitParser
    /\ op \in {Options("xhtml", se, FALSE) : se \in BOOLEAN}
    /\ emitted = NoCall
    /\ sp = splice_frame(<<>>, 0)

NextAttrs ==
    \/ \E ln \in AttrLines, d \in 0..MaxEvalDepth : p_obj(ln, d)
    \/ p_haml_doc

SpecAttrs == InitAttrs /\ [][NextAttrs]_vars

(***************************************************************************)
(* SpecDoctype: doctype lines with and without a subtype or a charset,     *)
(* under the three formats.                                                *)
(***************************************************************************)
DoctypeLines ==
    { [Line("doctype") EXCEPT !.type = ty] :
        ty \in {"", "strict", "transitional", "frameset", "basic", "mobile",
                "1.1"} }
    \cup { [Line("doctype") EXCEPT !.text = "xml", !.type = cs] :
            cs \in {"", "latin-1"} }

InitDoctype ==
    /\ InitParser
    /\ op \in {Options(f, FALSE, FALSE) : f \in {"xhtml", "html4", "html5"}}
    /\ emitted = NoCall
    /\ sp = splice_frame(<<>>, 0)

NextDoctype ==
    \/ \E ln \in DoctypeLines, d \in 0..MaxEvalDepth : p_obj(ln, d)
    \/ p_haml_doc

SpecDoctype == InitDoctype /\ [][NextDoctype]_vars

(***************************************************************************)
(* SpecTrim: tags with and without the trim markers, in and out of a       *)
(* whitespace-preserving tag.                                              *)
(***************************************************************************)
TrimLines ==
    { [Element(name) EXCEPT !.trim = tr] :
        name \in {"div", "pre"}, tr \in SUBSET {"<", ">"} }

InitTrim ==
    /\ InitParser
    /\ op = Options("xhtml", FALSE, FALSE)
    /\ emitted = NoCall
    /\ sp = splice_frame(<<>>, 0)

NextTrim ==
    \/ \E ln \in TrimLines, d \in 0..MaxEvalDepth : p_obj(ln, d)
    \/ p_haml_doc

SpecTrim == InitTrim /\ [][NextTrim]_vars

(***************************************************************************)
(* SpecCall: HamlObj.call alone, on any sequence of instructions, between  *)
(* enblock and deblock calls.                                              *)
(***************************************************************************)
Calls ==
    { [func |-> "write", args |-> <<Const(<<x>>)>>] : x \in {"a", "b"} }
    \cup { [func |-> "indent", args |-> <<BoolArg(TRUE)>>] }
    \cup { [func |-> f, args |-> <<>>] : f \in {"trim", "entab", "detab"} }
    \cup { [func |-> "None", args |-> <<>>] }

InitCall ==
    /\ InitParser
    /\ op = Options("xhtml", FALSE, FALSE)
    /\ emitted = NoCall
    /\ sp = splice_frame(<<>>, 0)

call_step(k) ==
    LET next == HamlCall(depth, 0, k.func, k.args,
                    IF k.func = "None"
                    THEN [tabs |-> depth, code |-> <<"pass">>] ELSE NoScript)
        s == call(src, next)
    IN  /\ Len(s) <= MaxSrc
        /\ \A i \in 1..Len(s) : Len(s[i].args) <= MaxArgs
        /\ src' = s
        /\ emitted' = next
        /\ UNCHANGED <<to_close, depth, last_obj, preserve, heap, op, err,
                       log, phase, sp>>

enblock_step ==
    /\ depth < MaxBlock
    /\ depth' = depth + 1
    /\ emitted' = NoCall
    /\ UNCHANGED <<src, to_close, last_obj, preserve, heap, op, err, log,
                   phase, sp>>

deblock_step ==
    /\ depth > 0
    /\ depth' = depth - 1
    /\ emitted' = NoCall
    /\ UNCHANGED <<src, to_close, last_obj, preserve, heap, op, err, log,
                   phase, sp>>

NextCall ==
    \/ \E k \in Calls : call_step(k)
    \/ enblock_step
    \/ deblock_step

SpecCall == InitCall /\ [][NextCall]_vars

(***************************************************************************)
(* SpecSplice: convert_inline_python on any text of at most MaxLen         *)
(* symbols, one pass of its loop at a time.                                *)
(***************************************************************************)
Alphabet == {"a", "\\", "@", "{", "}", "%"}

Texts == UNION {[1..n -> Alphabet] : n \in 0..MaxLen}

InitSplice ==
    /\ InitParser
    /\ op = Options("xhtml", FALSE, FALSE)
    /\ emitted = NoCall
    /\ sp \in {splice_frame(s, line) : s \in Texts, line \in {1, 2}}

Splice(f) ==
    /\ sp' = f
    /\ UNCHANGED <<src, to_close, depth, last_obj, preserve, heap, op, err,
                   log, phase, emitted>>

\* No marker is left: the rest is literal.
splice_literal ==
    /\ sp.pc = "scan"
    /\ find_marker(sp.s) = 0
    /\ Splice(splice_step(sp))

\* A marker the code takes as escaped.
splice_escaped ==
    /\ sp.pc = "scan"
    /\ find_marker(sp.s) # 0
    /\ splice_step(sp).last = "escaped"
    /\ Splice(splice_step(sp))

\* A marker the code takes as the start of an expression.
splice_script ==
    /\ sp.pc = "scan"
    /\ find_marker(sp.s) # 0
    /\ splice_step(sp).last = "script"
    /\ Splice(splice_step(sp))

\* The loop is over: the value is built.
splice_join ==
    /\ sp.pc = "join"
    /\ Splice(splice_step(sp))

NextSplice ==
    \/ splice_literal
    \/ splice_escaped
    \/ splice_script
    \/ splice_join

SpecSplice == InitSplice /\ [][NextSplice]_vars

(***************************************************************************)
(* Reading the history.                                                    *)
(***************************************************************************)
Refs == 1..Len(heap)

\* The positions of the history at which `ev` was called on node h.
Calls_of(ev, h) == {i \in 1..Len(log) : log[i].ev = ev /\ log[i].id = h}

Begun == {h \in Refs : Calls_of("begin", h) # {}}

Opened == {h \in Refs : Calls_of("open", h) # {}}

Closed == {h \in Refs : Calls_of("closed", h) # {}}

\* The declared depths of the open nodes, bottom first.
StackDepths == [i \in 1..Len(to_close) |-> heap[to_close[i]].bdepth]

\* Every begin so far came with a depth of at most the number of open
\* nodes (no line is indented by more than one level past its parent), and
\* no Javascript filter, which begins nodes of its own, was used.
Regular ==
    \A i \in 1..Len(log) :
        log[i].ev = "begin" =>
            /\ heap[log[i].id].bdepth <= log[i].len
            /\ heap[log[i].id].kind # "JavascriptFilter"

\* The entries the step to the next state adds to the history.
Added == SubSeq(log', Len(log) + 1, Len(log'))

\* The nodes ended in the step, in the order of their end calls.
RECURSIVE ended_in(_)
ended_in(evs) ==
    IF evs = <<>> THEN <<>>
    ELSE (IF evs[1].ev = "end" THEN <<evs[1].id>> ELSE <<>>)
         \o ended_in(Tail(evs))

Reverse(s) == [i \in 1..Len(s) |-> s[Len(s) + 1 - i]]

\* The step is a p_obj that begins node h at depth d.
Begins(h, d) ==
    /\ Len(log') > Len(log)
    /\ log'[Len(log) + 1] = Event("begin", h, Len(to_close))
    /\ heap'[h].bdepth = d

(***************************************************************************)
(* C1: when the compilation ends without error, every node begin was       *)
(* called on has had end called on it exactly once, and to_close is empty  *)
(* after p_haml_doc; before that, no node is ended twice and the nodes not *)
(* yet ended are those on to_close.                                        *)
(***************************************************************************)
C1_StackDiscipline ==
    /\ phase = "done" =>
          /\ to_close = <<>>
          /\ \A h \in Begun : Cardinality(Calls_of("end", h)) = 1
    /\ phase = "parse" =>
          /\ \A h \in Begun : Cardinality(Calls_of("end", h)) <= 1
          /\ {h \in Begun : Calls_of("end", h) = {}} = Range(to_close)

C1_Witness ==
    /\ phase = "done"
    /\ Len(heap) >= 3
    /\ \E i \in 1..Len(log) : log[i].ev = "end" /\ log[i].len > 1

(***************************************************************************)
(* C2, as claimed: between begin calls the declared depths on to_close are *)
(* non-increasing from bottom to top.                                      *)
(***************************************************************************)
C2_NonIncreasing ==
    phase # "aborted" =>
        \A i, j \in 1..Len(to_close) :
            i < j => StackDepths[i] >= StackDepths[j]

(***************************************************************************)
(* C2, amended: between begin calls, while Regular holds, the declared     *)
(* depth of an open node is its index on to_close counted from 0, so the   *)
(* declared depths are strictly increasing from bottom to top.             *)
(***************************************************************************)
C2_Increasing ==
    (phase # "aborted" /\ Regular) =>
        /\ \A i \in 1..Len(to_close) : StackDepths[i] = i - 1
        /\ \A i, j \in 1..Len(to_close) :
              i < j => StackDepths[i] < StackDepths[j]

C2_Witness ==
    /\ phase = "parse"
    /\ Regular
    /\ Len(to_close) = MaxNodes
    /\ StackDepths[1] < StackDepths[Len(to_close)]

C4_WriteMerges ==
    [][(/\ emitted'.func = "write"
        /\ src # <<>>
        /\ Last(src).func = "write"
        /\ Last(src).depth = emitted'.depth)
       => /\ Len(src') = Len(src)
          /\ Front(src') = Front(src)
          /\ Last(src').args = Last(src).args \o emitted'.args
          /\ Last(src').func = "write"
          /\ Last(src').depth = Last(src).depth]_vars

C4_Witness ==
    /\ emitted.func = "write"
    /\ src # <<>>
    /\ Last(src).func = "write"
    /\ Last(src).args = <<Const(<<"a">>), Const(<<"b">>)>>

(***************************************************************************)
(* C5: a detab emitted when the last instruction is an entab of the same   *)
(* depth removes that entab and appends nothing; an entab is always        *)
(* appended, so an entab followed at once by a detab of the same depth     *)
(* leaves the list as it was.                                              *)
(***************************************************************************)
C5_DetabCancels ==
    [][/\ (/\ emitted'.func = "detab"
           /\ src # <<>>
           /\ Last(src).func = "entab"
           /\ Last(src).depth = emitted'.depth)
          => src' = Front(src)
       /\ emitted'.func = "entab" =>
            /\ src' = Append(src, emitted')
            /\ call(src', [emitted' EXCEPT !.func = "detab"]) = src]_vars

C5_Witness ==
    /\ emitted.func = "detab"
    /\ Len(src) = 1
    /\ src[1].func = "write"

(***************************************************************************)
(* C6: a node that forbids children (a Content, a Doctype, a Tag with a    *)
(* value, a self-closed Tag) and under which a node was opened while it    *)
(* was on to_close never closes: its end call, whether made by a later     *)
(* begin or by p_haml_doc, is the last call of the compilation, which ends *)
(* there with the illegal-nesting error at that node's position.  No       *)
(* compilation that ended such a node completes.                           *)
(***************************************************************************)
Forbids(n) ==
    \/ n.kind \in {"Content", "Doctype"}
    \/ n.kind = "Tag" /\ (n.vkind # "None" \/ n.selfclose)

\* A node was opened after h was pushed and before position k of the history.
ChildBefore(h, k) ==
    \E i, j \in 1..k :
        /\ i < j
        /\ log[i].ev = "open" /\ log[i].id = h
        /\ log[j].ev = "open" /\ log[j].id # h

Writes_of(h) == {i \in 1..Len(src) : src[i].func = "write" /\ src[i].haml = h}

\* The arguments of the write instructions that node h emitted.
Written(h) == UNION {Range(src[i].args) : i \in Writes_of(h)}

Tags(S) == {h \in S : heap[h].kind = "Tag"}

(***************************************************************************)
(* C7: the terminator a Tag's open wrote is '/>' exactly when the tag has  *)
(* no value, is self-closed or named in autoclose, and the format is       *)
(* xhtml; in every other case, an auto tag under html4 or html5 included,  *)
(* it is '>'.  Exactly one of the two is written.                          *)
(***************************************************************************)
C7_Terminator ==
    \A h \in Tags(Opened) :
        LET n == heap[h]
            slash == /\ n.vkind = "None"
                     /\ n.selfclose \/ n.tagname \in op.autoclose
                     /\ op.format = "xhtml"
        IN  /\ Const(<<"/>">>) \in Written(h) <=> slash
            /\ Const(<<">">>) \in Written(h) <=> ~slash

C7_Witness ==
    \E h, g \in Tags(Opened) :
        /\ op.format = "xhtml"
        /\ heap[h].tagname = "br" /\ ~heap[h].selfclose
        /\ Const(<<"/>">>) \in Written(h)
        /\ heap[g].tagname = "br" /\ heap[g].vkind = "str"
        /\ Const(<<">">>) \in Written(g)

(***************************************************************************)
(* C8: the text a Tag's close wrote is '</name>' exactly when the tag is   *)
(* not auto, that is, has a value or is neither self-closed nor named in   *)
(* autoclose; for an auto tag it is the empty text, in every format.       *)
(***************************************************************************)
C8_ClosingTag ==
    \A h \in Tags(Closed) :
        LET n == heap[h]
            isauto == /\ n.vkind = "None"
                      /\ n.selfclose \/ n.tagname \in op.autoclose
            i == CHOOSE k \in Writes_of(h) : \A j \in Writes_of(h) : j <= k
        IN  /\ Writes_of(h) # {}
            /\ src[i].args =
                 <<Const(IF isauto THEN <<>> ELSE <<"</", n.tagname, ">">>)>>

C8_Witness ==
    \E h, g \in Tags(Closed) :
        /\ op.format = "html5"
        /\ heap[h].tagname = "div" /\ heap[h].selfclose
        /\ Const(<<>>) \in Written(h)
        /\ heap[g].tagname = "br" /\ heap[g].vkind = "Script"
        /\ Const(<<"</", "br", ">">>) \in Written(g)

\* The number of backslashes that end at position i of s.
RECURSIVE preceding_backslashes(_, _)
preceding_backslashes(s, i) ==
    IF i >= 1 /\ s[i] = "\\" THEN 1 + preceding_backslashes(s, i - 1) ELSE 0

(***************************************************************************)
(* C9: at every marker '@{' the loop meets, with n the number of           *)
(* backslashes immediately before it: if n is odd the marker is escaped,   *)
(* the text before the backslashes, n div 2 backslashes and '@{' are       *)
(* emitted and no fragment is captured; if n is even the text before the   *)
(* backslashes and n div 2 backslashes are emitted and an expression       *)
(* fragment is read (captured, or found unterminated).                     *)
(***************************************************************************)
C9_BackslashParity ==
    [][(sp.pc = "scan" /\ find_marker(sp.s) # 0) =>
         LET p   == find_marker(sp.s)
             n   == preceding_backslashes(sp.s, p - 1)
             lit == replace_pct(SubSeq(sp.s, 1, p - 1 - n))
                    \o Repeat("\\", n \div 2)
         IN  IF n % 2 = 1
             THEN /\ sp'.last = "escaped"
                  /\ sp'.fmt = sp.fmt \o lit \o <<"@", "{">>
                  /\ sp'.args = sp.args
             ELSE /\ sp'.last = "script"
                  /\ \/ sp'.pc = "raised"
                     \/ /\ sp'.fmt = sp.fmt \o lit \o <<"%", "s">>
                        /\ Len(sp'.args) = Len(sp.args) + 1]_vars

\* The number of positions of r before i that hold x.
Count(r, x, i) == Cardinality({j \in 1..(i - 1) : r[j] = x})

\* The positions of r holding a '}' that as many '{' as '}' precede.
Terminators(r) ==
    {i \in 1..Len(r) : r[i] = "}" /\ Count(r, "{", i) = Count(r, "}", i)}

(***************************************************************************)
(* C10: after a marker taken as the start of an expression, the fragment   *)
(* is the text from the marker up to, and without, the first '}' that is   *)
(* not matched by an earlier '{' of the fragment, and scanning resumes     *)
(* just after that '}'; when there is no such '}' the splicing fails with  *)
(* the unterminated-expression error at the node's line and captures       *)
(* nothing.                                                                *)
(***************************************************************************)
C10_BraceNesting ==
    sp.last = "script" =>
        LET p == find_marker(sp.s0)
            r == SubSeq(sp.s0, p + 2, Len(sp.s0))
            T == Terminators(r)
        IN  IF T = {}
            THEN /\ sp.pc = "raised"
                 /\ sp.err = HamlParserException(sp.line, UNTERMINATED)
            ELSE LET i == CHOOSE k \in T : \A j \in T : k <= j
                 IN  /\ sp.pc = "scan"
                     /\ sp.err = NoErr
                     /\ sp.args # <<>>
                     /\ Last(sp.args) = <<"(">> \o SubSeq(r, 1, i - 1) \o <<")">>
                     /\ sp.s = SubSeq(r, i + 1, Len(r))

C10_Witness ==
    /\ sp.last = "script"
    /\ sp.pc = "scan"
    /\ sp.args = << <<"(", "{", "}", ")">> >>
    /\ sp.s = <<>>

\* What the % operator makes of a template: '%%' is one '%', '%s' is a
\* placeholder, any other '%' is a formatting error.
RECURSIVE Render(_)
Render(f) ==
    IF f = <<>> THEN <<>>
    ELSE IF f[1] # "%" THEN <<f[1]>> \o Render(Tail(f))
    ELSE IF Len(f) >= 2 /\ f[2] = "%"
         THEN <<"%">> \o Render(SubSeq(f, 3, Len(f)))
    ELSE IF Len(f) >= 2 /\ f[2] = "s"
         THEN <<"<arg>">> \o Render(SubSeq(f, 3, Len(f)))
    ELSE <<"<bad>">>

\* The rendered template r with its placeholders filled, in order, by the
\* marker texts '@{' e '}' of the fragments '(' e ')' of frags.
RECURSIVE Fill(_, _)
Fill(r, frags) ==
    IF r = <<>> THEN <<>>
    ELSE IF r[1] = "<arg>"
         THEN IF frags = <<>> THEN <<"<bad>">>
              ELSE <<"@", "{">>
                   \o SubSeq(frags[1], 2, Len(frags[1]) - 1) \o <<"}">>
                   \o Fill(Tail(r), Tail(frags))
    ELSE <<r[1]>> \o Fill(Tail(r), frags)

\* s without its backslashes.
RECURSIVE Strip(_)
Strip(s) ==
    IF s = <<>> THEN <<>>
    ELSE (IF s[1] = "\\" THEN <<>> ELSE <<s[1]>>) \o Strip(Tail(s))

NewNode == heap'[Len(heap) + 1]

\* The step is p_obj on the line ln at depth d.  (The first conjunct follows
\* from the second: the node made is the one the line reduces to.)
Reduces(ln, d) ==
    /\ IF Len(heap') > Len(heap)
       THEN NewNode = [reduce(ln, lineno, d) EXCEPT !.bdepth = d]
       ELSE phase' = "aborted"
    /\ p_obj(ln, d)

(***************************************************************************)
(* C12: what reducing a line does with its host-language text.  With       *)
(* suppress_eval a silent-script line raises 'python evaluation is not     *)
(* allowed' at its line and the compilation stops there, with no node made *)
(* and nothing emitted; a script line, and a tag's script value, has the   *)
(* expression "" in place of its own, and that is what is written; a tag's *)
(* dict is {}.  Without suppress_eval the node holds the line's own text   *)
(* (and {} for a tag without a dict).                                      *)
(***************************************************************************)
C12_SuppressEval ==
    [][\A ln \in EvalLines, d \in 0..MaxEvalDepth :
          Reduces(ln, d) =>
              IF ln.prod = "silentscript"
              THEN IF op.suppress_eval
                   THEN /\ phase' = "aborted"
                        /\ err' = HamlParserException(lineno, NO_EVAL)
                        /\ heap' = heap /\ src' = src /\ to_close' = to_close
                   ELSE /\ NewNode.kind = "SilentScript"
                        /\ NewNode.value = ln.s
                        /\ err' = NoErr =>
                              \E i \in 1..Len(src') :
                                  src'[i].script.code = ln.s
              ELSE IF ln.prod = "script"
              THEN LET v == IF op.suppress_eval THEN <<"\"\"">> ELSE ln.s
                   IN  /\ NewNode.kind = "Script"
                       /\ NewNode.value = v
                       /\ err' = NoErr =>
                             /\ Last(src').func = "entab"
                             /\ Last(Front(src')).func = "write"
                             /\ Last(Last(Front(src')).args).kind = "unicode"
                             /\ Last(Last(Front(src')).args).text = v
              ELSE IF ln.prod = "element"
              THEN /\ NewNode.kind = "Tag"
                   /\ NewNode.hash = IF op.suppress_eval \/ ln.dict = ""
                                     THEN "{}" ELSE ln.dict
                   /\ ln.text = "script" =>
                         NewNode.value = IF op.suppress_eval
                                         THEN <<"\"\"">> ELSE ln.s
              ELSE TRUE]_vars

C12_Witness ==
    /\ op.suppress_eval
    /\ phase = "aborted"
    /\ err.msg = NO_EVAL
    /\ Len(heap) = 1
    /\ heap[1].kind = "Script"
    /\ heap[1].value = <<"\"\"">>

\* The number of SilentScript nodes among the references of s.
NSilent(s) ==
    Cardinality({i \in 1..Len(s) : heap'[s[i]].kind = "SilentScript"})

\* The number of `ev` calls on SilentScript nodes in the step's history.
SilentCalls(ev) ==
    Cardinality({i \in 1..Len(Added) :
                    Added[i].ev = ev /\ heap'[Added[i].id].kind = "SilentScript"})

(***************************************************************************)
(* C13: parser.depth starts at 0; a step changes it by the number of       *)
(* SilentScript nodes it opens minus the number it closes, and by nothing  *)
(* else; after every step that raises nothing it is the number of          *)
(* SilentScript nodes on to_close, hence 0 after p_haml_doc.               *)
(***************************************************************************)
C13_CodeDepth ==
    [][/\ depth' - depth = SilentCalls("open") - SilentCalls("closed")
       /\ phase' # "aborted" => depth' = NSilent(to_close')
       /\ phase' = "done" => depth' = 0]_vars

C13_Witness ==
    /\ phase = "done"
    /\ depth = 0
    /\ Len(heap) = 2
    /\ \A h \in Refs : heap[h].kind = "SilentScript"
    /\ \E i \in 1..Len(log) : log[i].ev = "open" /\ log[i].len = 1

\* The tokens of s joined by single spaces.
RECURSIVE JoinSpace(_)
JoinSpace(s) ==
    IF s = <<>> THEN <<>>
    ELSE IF Len(s) = 1 THEN <<s[1]>>
    ELSE <<s[1], " ">> \o JoinSpace(Tail(s))

(***************************************************************************)
(* C14: a tag line with an id, class tokens or a dict other than {} makes  *)
(* its tag emit exactly one attrs instruction, whose arguments are the id, *)
(* the class tokens joined by spaces in source order, and the dict; a tag  *)
(* line with none of them emits no attrs instruction.                      *)
(***************************************************************************)
C14_Attrs ==
    [][\A ln \in AttrLines, d \in 0..MaxEvalDepth :
          Reduces(ln, d) =>
              LET h    == Len(heap) + 1
                  dict == IF ln.dict = "" \/ op.suppress_eval
                          THEN "{}" ELSE ln.dict
                  A    == {i \in 1..Len(src') :
                              src'[i].func = "attrs" /\ src'[i].haml = h}
              IN  /\ NewNode.klass = JoinSpace(ln.classes)
                  /\ IF ln.id # <<>> \/ ln.classes # <<>> \/ dict # "{}"
                     THEN /\ Cardinality(A) = 1
                          /\ \A i \in A :
                                src'[i].args =
                                    <<ReprArg(ln.id),
                                      ReprArg(JoinSpace(ln.classes)),
                                      RawArg(<<dict>>)>>
                     ELSE A = {}]_vars

C14_Witness ==
    /\ Len(heap) = 2
    /\ heap[1].klass = <<"c", " ", "d">>
    /\ heap[2].hash = "{}" /\ heap[2].id = <<>> /\ heap[2].klass = <<>>
    /\ Cardinality({i \in 1..Len(src) : src[i].func = "attrs"}) = 1
    /\ \E i \in 1..Len(src) :
          src[i].args = <<ReprArg(<<>>), ReprArg(<<"c", " ", "d">>),
                          RawArg(<<"{}">>)>>

\* The declaration the table holds for a format and a subtype named in it.
Declaration(format, type) ==
    IF format = "html5" THEN "<!DOCTYPE html>"
    ELSE IF format = "xhtml"
         THEN xhtml_doctypes[IF type = "" THEN "transitional" ELSE type]
         ELSE html4_doctypes[IF type = "" THEN "transitional" ELSE type]

(***************************************************************************)
(* C15: a doctype line that is not XML, once its node is opened, writes the declaration of the table *)
(* for the configured format and the subtype, when the table has one: with *)
(* no subtype the transitional declaration under xhtml and html4 and       *)
(* '<!DOCTYPE html>' under html5.  A subtype the format's table lacks      *)
(* (any subtype under html5, basic or mobile under html4) ends the         *)
(* compilation with a KeyError.  An XML doctype line writes the prolog     *)
(* with its charset, utf-8 when it names none.                             *)
(***************************************************************************)
C15_Doctype ==
    [][\A ln \in DoctypeLines, d \in 0..MaxEvalDepth :
          (/\ Reduces(ln, d)
           /\ \E i \in 1..Len(Added) :
                  Added[i].ev = "open" /\ Added[i].id = Len(heap) + 1) =>
              LET h == Len(heap) + 1
                  known == IF op.format = "html5" THEN {""}
                           ELSE IF op.format = "html4"
                           THEN {"", "strict", "transitional", "frameset"}
                           ELSE {"", "strict", "transitional", "frameset",
                                 "basic", "mobile"}
                  w == src'[Len(src') - 1]
                  written(s) == /\ err' = NoErr
                                /\ Last(src').func = "entab"
                                /\ w.func = "write" /\ w.haml = h
                                /\ w.args = <<Const(s)>>
              IN  IF ln.text = "xml"
                  THEN written(<<"<?xml version=\"1.0\" encoding=\"",
                                 IF ln.type = "" THEN "utf-8" ELSE ln.type,
                                 "\"?>">>)
                  ELSE IF ln.type \in known
                  THEN written(<<Declaration(op.format, ln.type)>>)
                  ELSE /\ err' = KeyError
                       /\ phase' = "aborted"
                       /\ \A i \in 1..Len(src') : src'[i].haml # h]_vars

C15_Witness ==
    /\ op.format = "html4"
    /\ Len(heap) = 2
    /\ heap[1].xml /\ heap[1].type = "utf-8"
    /\ ~heap[2].xml /\ heap[2].type = ""
    /\ \E i \in 1..Len(src) :
          src[i].args = <<Const(<<html4_doctypes.transitional>>)>>
    /\ err = NoErr

(***************************************************************************)
(* C16: an emit leaves every instruction before the last as it was, and    *)
(* removes at most the last; unless the new instruction is a detab after   *)
(* an entab of the same depth or a write after a write of the same depth,  *)
(* the list afterwards is the list before with the new instruction         *)
(* appended: so when the list is empty, when the last instruction has      *)
(* another depth, and when either is a line of script.                     *)
(***************************************************************************)
C16_LastOnly ==
    [][emitted'.func # "nothing" =>
          LET same   == src # <<>> /\ Last(src).depth = emitted'.depth
              cancel == /\ same
                        /\ emitted'.func = "detab" /\ Last(src).func = "entab"
              merge  == /\ same
                        /\ emitted'.func = "write" /\ Last(src).func = "write"
          IN  /\ Len(src') >= Len(src) - 1
              /\ \A i \in 1..(Len(src) - 1) : src'[i] = src[i]
              /\ ~(cancel \/ merge) => src' = Append(src, emitted')]_vars

C16_Witness ==
    /\ emitted.func = "write"
    /\ Len(src) = 2
    /\ src[1].func = "write" /\ src[2].func = "write"
    /\ src[1].depth # src[2].depth
    /\ src[2] = emitted

\* The position of the first `ev` call on node h in the sequence evs, and
\* Len(evs) + 1 when there is none.
FirstCall(evs, ev, h) ==
    LET P == {i \in 1..Len(evs) : evs[i].ev = ev /\ evs[i].id = h}
    IN  IF P = {} THEN Len(evs) + 1 ELSE CHOOSE i \in P : \A j \in P : i <= j

(***************************************************************************)
(* C17, as claimed: of two nodes on to_close together, the one whose begin *)
(* was called later is ended before the one whose begin was called         *)
(* earlier.                                                                *)
(***************************************************************************)
C17_BeginOrder ==
    [][\A a, b \in Range(to_close) :
          (/\ FirstCall(log, "begin", a) < FirstCall(log, "begin", b)
           /\ FirstCall(Added, "end", a) <= Len(Added))
          => FirstCall(Added, "end", b) < FirstCall(Added, "end", a)]_vars

(***************************************************************************)
(* C17, amended: of two nodes on to_close together, the one pushed later   *)
(* (the upper one, whose begin returned later) is ended before the other,  *)
(* in the pops of a begin and in those of p_haml_doc; nodes that are not   *)
(* ended keep their places, below the nodes pushed after them.             *)
(***************************************************************************)
C17_PushOrder ==
    [][\A i, j \in 1..Len(to_close) :
          i < j =>
              LET a == to_close[i]
                  b == to_close[j]
              IN  /\ FirstCall(Added, "end", a) <= Len(Added) =>
                        FirstCall(Added, "end", b) < FirstCall(Added, "end", a)
                  /\ (err' = NoErr /\ FirstCall(Added, "end", b) > Len(Added)) =>
                        /\ to_close'[i] = a
                        /\ to_close'[j] = b]_vars

C17_Witness ==
    /\ phase = "done"
    /\ Len(heap) = 2
    /\ \E i, j \in 1..Len(log) :
          /\ i < j
          /\ log[i] = Event("end", 2, 1)
          /\ log[j] = Event("end", 1, 0)

\* The nodes that were on to_close when h was opened.
Ancestors(h) ==
    {g \in Refs \ {h} :
        /\ FirstCall(log, "open", g) < FirstCall(log, "open", h)
        /\ FirstCall(log, "end", g) > FirstCall(log, "open", h)}

\* parser.preserve when h was opened, and again when it is closed.
Region(h) ==
    Cardinality({g \in Ancestors(h) : heap[g].tagname \in op.preserve})

\* No node was begun between the open of h and its end.
StillLast(h) ==
    \A g \in Refs \ {h} :
        ~(/\ FirstCall(log, "open", h) < FirstCall(log, "open", g)
          /\ FirstCall(log, "open", g) < FirstCall(log, "end", h))

\* The trim, indent and write instructions of node h, in order.
RECURSIVE Pushes(_, _)
Pushes(s, h) ==
    IF s = <<>> THEN <<>>
    ELSE (IF s[1].haml = h /\ s[1].func \in {"trim", "indent", "write"}
          THEN <<s[1].func>> ELSE <<>>) \o Pushes(Tail(s), h)

Opt(b, s) == IF b THEN s ELSE <<>>

\* What a tag with these four trims emits: at the open the write of the
\* terminator follows, merged into the first write unless a trim separates
\* them.
PushShape(before_open, after_open, closed, before_close, after_close) ==
    Opt(before_open, <<"trim">>) \o <<"indent", "write">>
    \o Opt(after_open, <<"trim", "write">>)
    \o Opt(closed, Opt(before_close, <<"trim">>) \o <<"indent", "write">>
                   \o Opt(after_close, <<"trim">>))

(***************************************************************************)
(* C18, as claimed: at the open a trim before the indent iff outer, and a  *)
(* trim after the write iff inner, a preserve name or a non-zero preserve  *)
(* counter; at the close the two conditions change places, with a trim     *)
(* before the indent also when the tag is still the last object.           *)
(***************************************************************************)
C18_Swapped ==
    \A h \in Tags(Opened) :
        LET n == heap[h]
            in == n.inner \/ n.tagname \in op.preserve \/ Region(h) # 0
        IN  Pushes(src, h) =
                PushShape(n.outer, in, h \in Closed,
                          in \/ StillLast(h), n.outer)

(***************************************************************************)
(* C18, amended: at the open as claimed.  At the close a trim is emitted   *)
(* before the indent iff the tag has the inner flag, a preserve name, or   *)
(* is still the last object, and after the write iff it has the outer flag *)
(* or the preserve counter is non-zero: the counter stays with the trim    *)
(* after the write.                                                        *)
(***************************************************************************)
C18_Trims ==
    \A h \in Tags(Opened) :
        LET n == heap[h]
            in == n.inner \/ n.tagname \in op.preserve
        IN  Pushes(src, h) =
                PushShape(n.outer, in \/ Region(h) # 0, h \in Closed,
                          in \/ StillLast(h), n.outer \/ Region(h) # 0)

C18_Witness ==
    /\ phase = "done"
    /\ Len(heap) = 2
    /\ heap[1].tagname = "pre" /\ ~heap[1].outer
    /\ heap[2].tagname = "div" /\ ~heap[2].outer /\ ~heap[2].inner
    /\ Region(2) = 1
    /\ Pushes(src, 2) =
          <<"indent", "write", "trim", "write",
            "trim", "indent", "write", "trim">>

(***************************************************************************)
(* C19: after begin(node, depth) returns, node is on top of to_close, over *)
(* the first depth nodes of the stack before (all of them when there were  *)
(* fewer), so the stack holds at most depth + 1 nodes.  A Javascript       *)
(* filter has in between the script Tag its open made and, under xhtml,    *)
(* the CData node made after it; whenever one of these is ended, the       *)
(* filter was ended before it, and the CData node before the Tag.          *)
(***************************************************************************)
C19_AfterBegin ==
    [][\A h \in 1..Len(heap'), d \in 0..MaxDepth :
          (Begins(h, d) /\ err' = NoErr) =>
              LET kept == SubSeq(to_close, 1, Min(d, Len(to_close)))
                  made == IF heap'[h].kind # "JavascriptFilter" THEN <<>>
                          ELSE IF op.format = "xhtml" THEN <<h + 1, h + 2>>
                          ELSE <<h + 1>>
              IN  /\ Last(to_close') = h
                  /\ to_close' = kept \o made \o <<h>>
                  /\ Len(heap') = h + Len(made)
                  /\ heap'[h].kind # "JavascriptFilter" =>
                        Len(to_close') <= d + 1
                  /\ made # <<>> =>
                        /\ heap'[h + 1].kind = "Tag"
                        /\ heap'[h + 1].tagname = "script"
                  /\ Len(made) = 2 => heap'[h + 2].kind = "CData"
       /\ \A f \in 1..Len(heap') :
             heap'[f].kind = "JavascriptFilter" =>
                 LET e(g) == FirstCall(log', "end", g)
                     tag  == f + 1
                     cd   == f + 2
                     xh   == op.format = "xhtml"
                 IN  /\ e(tag) <= Len(log') => e(f) < e(tag)
                     /\ (xh /\ e(cd) <= Len(log')) => e(f) < e(cd)
                     /\ (xh /\ e(tag) <= Len(log')) => e(cd) < e(tag)]_vars

C19_Witness ==
    /\ phase = "done"
    /\ op.format = "xhtml"
    /\ Len(heap) = 4
    /\ heap[2].kind = "JavascriptFilter"
    /\ heap[2].bdepth = 1
    /\ ended_in(log) = <<2, 4, 3, 1>>

\* The source line ln with every host expression replaced by the same one.
Skeleton(ln) ==
    [ln EXCEPT !.s = [i \in 1..Len(ln.s) |->
                         IF ln.s[i] \in Exprs THEN "x" ELSE ln.s[i]],
               !.dict = IF ln.dict \in Exprs THEN "x" ELSE ln.dict]

\* What p_obj makes of the line ln at depth d in the current state: the
\* instruction list and the pending exception.
Compiled(ln, d) ==
    IF ln.prod = "silentscript" /\ op.suppress_eval
    THEN [src |-> src, err |-> HamlParserException(lineno, NO_EVAL)]
    ELSE LET c == begin_new(New(Ctx, reduce(ln, lineno, d)), d)
         IN  [src |-> c.src, err |-> c.err]

\* The instruction holds the text of a host expression of the source.
Mentions(i) ==
    \/ \E k \in 1..Len(i.args) :
          \/ Range(i.args[k].text) \cap Exprs # {}
          \/ \E j \in 1..Len(i.args[k].frags) :
                Range(i.args[k].frags[j]) \cap Exprs # {}
    \/ Range(i.script.code) \cap Exprs # {}

(***************************************************************************)
(* C20: with suppress_eval no instruction emitted holds the text of a      *)
(* script, an attribute dict or an inline expression of the source, and    *)
(* two lines that differ only in such text compile, from the same state,   *)
(* to the same instruction list and the same outcome.                      *)
(***************************************************************************)
C20_NoSourceExpr ==
    op.suppress_eval =>
        /\ \A i \in 1..Len(src) : ~Mentions(src[i])
        /\ (phase = "parse" /\ lineno <= MaxNodes) =>
              \A ln1, ln2 \in EvalLines, d \in 0..MaxEvalDepth :
                  Skeleton(ln1) = Skeleton(ln2) =>
                      Compiled(ln1, d) = Compiled(ln2, d)

\* The instruction is a RawStatement (a script line).
RawStatement(i) == i.func = "None"

\* The compiled lines of the list s rise by at most one tab, and only after
\* a RawStatement.
Rises(s) ==
    \A k \in 1..(Len(s) - 1) :
        /\ HamlCall_tabs(s[k + 1]) <= HamlCall_tabs(s[k]) + 1
        /\ s[k + 1].depth <= s[k].depth + 1
        /\ (\/ HamlCall_tabs(s[k + 1]) > HamlCall_tabs(s[k])
            \/ s[k + 1].depth > s[k].depth) => RawStatement(s[k])

(***************************************************************************)
(* C21: after every step, an instruction of the list is at most one level  *)
(* deeper than the instruction before it, and is deeper only when that     *)
(* instruction is a RawStatement; the step that opens a SilentScript ends  *)
(* the list with its RawStatement, whose leading tabs are the value of     *)
(* parser.depth at the open (one less than after it) and whose text is the *)
(* node's value; no entab or detab of the list belongs to a SilentScript.  *)
(***************************************************************************)
C21_EmissionDepth ==
    [][/\ Rises(src')
       /\ \A k \in 1..Len(src') :
             /\ RawStatement(src'[k]) => src'[k].script.tabs = src'[k].depth
             /\ src'[k].func \in {"entab", "detab"} =>
                   heap'[src'[k].haml].kind # "SilentScript"
       /\ \A k \in 1..Len(Added) :
             (Added[k].ev = "open" /\ heap'[Added[k].id].kind = "SilentScript") =>
                 /\ Last(src') = HamlCall(depth' - 1, Added[k].id, "None", <<>>,
                                          [tabs |-> depth' - 1,
                                           code |-> heap'[Added[k].id].value])
                 /\ Len(src') = 1 \/ src'[Len(src') - 1].haml # Added[k].id]_vars

C21_Witness ==
    /\ phase = "done"
    /\ Len(src) >= 2
    /\ RawStatement(src[1]) /\ src[1].script.tabs = 0
    /\ RawStatement(src[2]) /\ src[2].script.tabs = 1

(***************************************************************************)
(* C22: a node that forbids children (a Content, a Doctype, a Tag with a   *)
(* value, a self-closed Tag) and under which no node was opened between    *)
(* its own open and its end closes: the end call, made by p_haml_doc or by *)
(* the begin of a later line at the same or a shallower depth, is followed *)
(* by the node's close returning.  Whenever the illegal-nesting error is   *)
(* pending, it was raised by the end of a node that forbids children and   *)
(* under which a node was opened.                                          *)
(***************************************************************************)
C22_NoFalsePositive ==
    /\ \A h \in Refs : \A k \in Calls_of("end", h) :
          (Forbids(heap[h]) /\ ~ChildBefore(h, k)) =>
              /\ k < Len(log)
              /\ log[k + 1].ev = "closed" /\ log[k + 1].id = h
              /\ err # HamlParserException(heap[h].posinfo, ILLEGAL_NESTING)
    /\ err.msg = ILLEGAL_NESTING =>
          /\ log # <<>>
          /\ Last(log).ev = "end"
          /\ Forbids(heap[Last(log).id])
          /\ ChildBefore(Last(log).id, Len(log))
          /\ err.line = heap[Last(log).id].posinfo

\* A Content line closed by the begin of the next line at its own depth.
C22_Witness ==
    /\ phase = "parse" /\ err = NoErr
    /\ Len(heap) = 2
    /\ heap[1].kind = "Content" /\ heap[2].kind = "Doctype"
    /\ heap[2].bdepth = heap[1].bdepth
    /\ to_close = <<2>>
    /\ Calls_of("closed", 1) # {}
    /\ \A k \in Calls_of("end", 1) : \E j \in Calls_of("begin", 2) : j < k

====
